---- MODULE Spec2Model ----
(***************************************************************************)
(* The AppRollout reconciler of KubeVela                                   *)
(* (pkg/controller/core.oam.dev/v1alpha2/applicationrollout).              *)
(*                                                                         *)
(* One AppRollout object lives in the control plane's store.  The user     *)
(* edits its spec and requests its deletion, an external reconciler        *)
(* creates and deletes ApplicationRevisions, and the controller runs       *)
(* Reconcile passes: a pass reads the object (ReconcileGet) and then runs  *)
(* handleFinalizer, DoReconcile and updateStatus on the copy it read       *)
(* (ReconcileRun).  The dispatcher, the rollout status' state transitions  *)
(* and the rollout plan executor are packages of the repository whose      *)
(* source is not part of the sample; they are modelled from the design     *)
(* document.                                                               *)
(***************************************************************************)
EXTENDS Naturals, FiniteSets, Sequences, TLC

\* ------------------------------------------------------------------------
\* Names
\* ------------------------------------------------------------------------

\* the ApplicationRevisions a rollout may name
Revs == {"r1", "r2", "r3"}

\* Spec.SourceAppRevisionName left empty: a scale operation
NoRev == ""

\* a nil *ApplicationRevision / a nil workload handle
Nil == "nil"

\* identities of the resources the revisions' manifests name
Res == {"a", "b", "c", "d"}

\* the manifests assembled from an (immutable) revision: rev-1 and rev-2 are
\* the design document's GC example, P = {a, b, c} and M = {b, c, d}
Manifest(rev) ==
    CASE rev = "r1" -> {"a", "b", "c"}
      [] rev = "r2" -> {"b", "c", "d"}
      [] OTHER      -> {"a", "d"}

\* v1alpha1 rolling states; the empty string is the state of a new object
Initial        == ""
LocatingTarget == "LocatingTarget"
Rolling        == "Rolling"
Succeeded      == "Succeeded"
Failed         == "Failed"
Deleting       == "Deleting"
Abandoning     == "Abandoning"

RollingStates ==
    {Initial, LocatingTarget, Rolling, Succeeded, Failed, Deleting, Abandoning}

Terminal == {Succeeded, Failed}

\* rollout events fired by the controller
RollingModifiedEvent == "Modified"
RollingDeletedEvent  == "Deleted"
AppLocatedEvent      == "AppLocated"

VARIABLES
    appRollout,   \* the stored AppRollout object
    revisions,    \* the ApplicationRevisions that exist in the store
    malformed,    \* the revisions whose manifests cannot be assembled
    cluster,      \* live resources and resource trackers
    pc,           \* position of the control loop: "idle" or "fetched"
    local,        \* the copy of the object the running pass works on
    stale,        \* the stored object was written since the pass read it
    last,         \* what the pass that just ended did
    midFlight,    \* a change of source/target made while the rollout was
                  \* under way has not yet restarted the rollout
    peer,         \* a second AppRollout of the same application: its
                  \* stored object and what its last pass did
    appRevision,      \* the ApplicationRevision an assembler was made for
    workloadOptions,  \* the workload options added to the assembler
    assembled         \* what the calls of Assemble returned, in order

\* the variables of the rollout controller
ctrlVars == <<appRollout, revisions, malformed, cluster, pc, local, stale,
              last, midFlight, peer>>

\* the variables of the assembler
asmVars == <<appRevision, workloadOptions, assembled>>

vars == <<appRollout, revisions, malformed, cluster, pc, local, stale, last,
          midFlight, peer, appRevision, workloadOptions, assembled>>

\* ------------------------------------------------------------------------
\* Rollout status: ResetStatus and StateTransition
\* ------------------------------------------------------------------------

\* RolloutStatus.ResetStatus: a rollout (re)starts by locating its target
ResetStatus(status) ==
    [status EXCEPT !.RollingState = LocatingTarget]

\* RolloutStatus.StateTransition for the three events the controller fires,
\* after the design document's transition table
StateTransition(status, event) ==
    CASE event = RollingModifiedEvent ->
            IF status.RollingState \in Terminal
            THEN [status EXCEPT !.RollingState = Initial]
            ELSE status
      [] event = RollingDeletedEvent ->
            [status EXCEPT !.RollingState = Deleting]
      [] event = AppLocatedEvent ->
            IF status.RollingState \in {Initial, LocatingTarget}
            THEN [status EXCEPT !.RollingState = Rolling]
            ELSE status
      [] OTHER -> status

\* the states the rollout plan executor may leave the rollout in, given the
\* state it is invoked in (a black box to the controller)
ExecutorNext(state) ==
    CASE state = Rolling    -> {Rolling, Succeeded, Failed}
      [] state = Deleting   -> {Deleting, Abandoning, Succeeded, Failed}
      [] state = Abandoning -> {Abandoning, Succeeded, Failed}
      [] OTHER              -> {state}

\* ------------------------------------------------------------------------
\* Dispatcher
\* ------------------------------------------------------------------------

DispatchModes == {"plain", "adopt", "gc"}

\* a GC that reclaims everything the prior tracker recorded
Orphans_WholePrior(cl, cur, manifests, mode, prior) ==
    IF mode = "gc" /\ prior \in cl.rts /\ prior # cur
    THEN cl.tracked[prior]
    ELSE {}

\* the resources a GC-mode dispatch reclaims: recorded in the prior tracker
\* and not named by the new manifest set
Orphans(cl, cur, manifests, mode, prior) ==
    IF mode = "gc" /\ prior \in cl.rts /\ prior # cur
    THEN cl.tracked[prior] \ manifests
    ELSE {}

\* applying a manifest set: create-if-absent else update, and record every
\* applied resource in the current tracker (created on first use)
Apply(cl, cur, manifests) ==
    [cl EXCEPT !.live = @ \cup manifests,
               !.rts = @ \cup {cur},
               !.tracked[cur] = @ \cup manifests]

\* Dispatch(manifests) of a dispatcher for revision cur, configured with
\* EnableUpgradeAndSkipGC(prior) ("adopt"), EnableGC(prior) ("gc") or
\* neither ("plain").  Adopt mode re-owns what the prior tracker holds and
\* deletes nothing; GC mode deletes the prior tracker's orphans after the
\* apply and removes the prior tracker.
Dispatch(cl, cur, manifests, mode, prior) ==
    LET applied == Apply(cl, cur, manifests)
        orphans == Orphans(applied, cur, manifests, mode, prior)
    IN  IF mode = "gc" /\ prior \in applied.rts /\ prior # cur
        THEN [applied EXCEPT !.live = @ \ orphans,
                             !.rts = @ \ {prior},
                             !.tracked[prior] = {}]
        ELSE applied

\* ------------------------------------------------------------------------
\* Inputs of a pass: where the control plane fails, which part of a manifest
\* set a failing dispatch got applied, what the plan executor reports
\* ------------------------------------------------------------------------

Faults ==
    {"none", "update", "getSource", "getTarget",
     "srcDispatch", "srcVerify", "srcPatch",
     "tgtDispatch", "tgtVerify", "tgtPatch",
     "gcDispatch", "gcCollect"}

DispatchFaults == {"srcDispatch", "tgtDispatch", "gcDispatch"}

\* the most resources a failing dispatch applies before it gives up
MaxPartial == 1

\* the order in which a manifest set is applied
Order == <<"a", "b", "c", "d">>

Rank(x) == CHOOSE i \in 1..Len(Order) : Order[i] = x

\* the first k resources of a manifest set
Prefix(manifests, k) ==
    {x \in manifests :
        Cardinality({y \in manifests : Rank(y) < Rank(x)}) < k}

VerifyFaults == {"srcVerify", "tgtVerify"}

\* utils.DefaultBackoff.Steps: the most reads of the workload one wait makes
BackoffSteps == 2

\* visibleAt: the read at which the workload just dispatched is first
\* visible (BackoffSteps + 1: not within the wait); a verify fault is a
\* workload that is not visible at the first read
\* the owner reference the assembler puts on every workload: the
\* Application that controls the revision
AppOwnerRef == [name |-> "app", controller |-> "true"]

\* owners: the owner references of a workload just dispatched, as read back
Inputs ==
    {in \in [fault : Faults, partial : 0..MaxPartial, exec : RollingStates,
              visibleAt : 1..(BackoffSteps + 1), owners : {<<AppOwnerRef>>}] :
        /\ in.fault \notin DispatchFaults => in.partial = 0
        /\ in.fault \in VerifyFaults <=> in.visibleAt > 1}

\* ------------------------------------------------------------------------
\* applicationrollout: helpers of the reconciler
\* ------------------------------------------------------------------------

\* r.getAppRevision: the revision, or a NotFound / transient error
getAppRevision(revName, fail) ==
    IF fail THEN [rev |-> Nil, err |-> "transient"]
    ELSE IF revName \in revisions THEN [rev |-> revName, err |-> ""]
    ELSE [rev |-> Nil, err |-> "NotFound"]

\* getAssembledManifests: fails on a revision that cannot be assembled
getAssembledManifests(appRev) ==
    IF appRev \in malformed
    THEN [m |-> {}, err |-> "assemble"]
    ELSE [m |-> Manifest(appRev), err |-> ""]

\* getWorkload: the workload handle of the revision (the revision's first
\* manifest), nil when assembling fails
getWorkload(appRev) ==
    IF getAssembledManifests(appRev).err # "" THEN Nil ELSE appRev

\* one entry of the pass' dispatch record
DispatchEntry(cl, after, cur, mode, prior, manifests, ok, visibleAt, by, err, read, patched) ==
    [rev |-> cur, mode |-> mode, prior |-> prior, manifests |-> manifests,
     visibleAt |-> visibleAt,
     by |-> by, err |-> err,
     read |-> read.owners,
     owners |-> IF err = "" THEN patched.owners ELSE read.owners,
     priorTracked |-> IF prior \in cl.rts THEN cl.tracked[prior] ELSE {},
     created |-> after.live \ cl.live,
     deleted |-> cl.live \ after.live,
     recorded |-> after.tracked[cur],
     ok |-> ok]

\* what a dispatch leaves: the cluster after it and its entry in the record
Dispatched(cl, after, cur, mode, prior, manifests, err, ok, visibleAt, by, read, patched) ==
    [err |-> err, cl |-> after,
     dispatched |-> <<DispatchEntry(cl, after, cur, mode, prior, manifests,
                                    ok, visibleAt, by, err, read, patched)>>]

\* verifyWorkloadExists, lines 349-356: one read of the workload; a read
\* that does not find it returns the error of the read
verifyWorkloadExists(attempt, visibleAt) ==
    IF attempt < visibleAt
    THEN [ok |-> FALSE, err |-> "verify"]
    ELSE [ok |-> TRUE, err |-> ""]

\* wait.ExponentialBackoff: call the condition up to steps times; stop at
\* the first call that returns true or an error
RECURSIVE ExponentialBackoff(_, _, _)
ExponentialBackoff(steps, attempt, visibleAt) ==
    IF steps = 0 THEN "timeout"
    ELSE LET c == verifyWorkloadExists(attempt, visibleAt)
         IN  IF c.err # "" \/ c.ok THEN c.err
             ELSE ExponentialBackoff(steps - 1, attempt + 1, visibleAt)

\* the workload as verifyWorkloadExists read it back: nothing when the
\* dispatch or every read failed
ReadBack(failDispatch, visibleAt, owners) ==
    [owners |-> IF failDispatch \/ visibleAt > BackoffSteps THEN <<>>
                ELSE owners]

\* disableCtrlOwner that drops the controller owners
disableCtrlOwner_DropControllers(wl, failPatch) ==
    LET notCtrl(o) == o.controller # "true"
    IN  [err |-> IF failPatch THEN "patch" ELSE "",
         owners |-> IF failPatch THEN wl.owners
                    ELSE SelectSeq(wl.owners, notCtrl)]

\* r.disableCtrlOwner(wl): patch the workload with its owner references,
\* the controller flag of each set to false where it was true
disableCtrlOwner(wl, failPatch) ==
    [err |-> IF failPatch THEN "patch" ELSE "",
     owners |-> IF failPatch THEN wl.owners
                ELSE [i \in DOMAIN wl.owners |->
                         IF wl.owners[i].controller = "true"
                         THEN [wl.owners[i] EXCEPT !.controller = "false"]
                         ELSE wl.owners[i]]]

\* emitAppRevisionForRollout, lines 323-363: assemble the revision's
\* manifests, dispatch them with the dispatcher options chosen, read the
\* workload back and disable its controller owner
DispatchRevision(cl, mode, curAppRev, previsouAppRev, failDispatch, visibleAt, failPatch, partial, owners) ==
    LET a == getAssembledManifests(curAppRev)
        m == IF failDispatch THEN Prefix(a.m, partial) ELSE a.m
    IN  IF a.err # ""
        THEN [err |-> a.err, cl |-> cl, dispatched |-> <<>>]
        ELSE Dispatched(cl,
                        Dispatch(cl, curAppRev, m, mode, previsouAppRev),
                        curAppRev, mode, previsouAppRev, m,
                        IF failDispatch THEN "dispatch"
                        ELSE IF ExponentialBackoff(BackoffSteps, 1,
                                                   visibleAt) # ""
                        THEN ExponentialBackoff(BackoffSteps, 1, visibleAt)
                        ELSE disableCtrlOwner(
                                 ReadBack(failDispatch, visibleAt, owners),
                                 failPatch).err,
                        ~failDispatch, visibleAt, "emit",
                        ReadBack(failDispatch, visibleAt, owners),
                        disableCtrlOwner(
                            ReadBack(failDispatch, visibleAt, owners),
                            failPatch))

\* emitAppRevisionForRollout that configures EnableGC for the previous
\* revision's tracker
emitAppRevisionForRollout_EnableGC(cl, curAppRev, previsouAppRev, failDispatch, visibleAt, failPatch, partial, owners) ==
    DispatchRevision(cl, IF previsouAppRev # Nil THEN "gc" ELSE "plain",
                     curAppRev, previsouAppRev, failDispatch, visibleAt,
                     failPatch, partial, owners)

\* r.emitAppRevisionForRollout(curAppRev, previsouAppRev): dispatch the
\* revision's manifests, adopting from the previous revision's tracker when
\* one is given
emitAppRevisionForRollout(cl, curAppRev, previsouAppRev, failDispatch, visibleAt, failPatch, partial, owners) ==
    DispatchRevision(cl, IF previsouAppRev # Nil THEN "adopt" ELSE "plain",
                     curAppRev, previsouAppRev, failDispatch, visibleAt,
                     failPatch, partial, owners)

\* finalizeRollingSucceeded, lines 289-302: assemble the target's manifests
\* and dispatch them with the dispatcher options chosen
DispatchTarget(cl, mode, prior, targetAppRev, failDispatch, failCollect, partial) ==
    LET a == getAssembledManifests(targetAppRev)
        m == IF failDispatch THEN Prefix(a.m, partial) ELSE a.m
    IN  IF a.err # ""
        THEN [err |-> a.err, cl |-> cl, dispatched |-> <<>>]
        ELSE Dispatched(cl,
                        IF failDispatch \/ failCollect
                        THEN Apply(cl, targetAppRev, m)
                        ELSE Dispatch(cl, targetAppRev, m, mode, prior),
                        targetAppRev, mode, prior, m,
                        IF failDispatch THEN "dispatch"
                        ELSE IF failCollect THEN "gc" ELSE "",
                        ~failDispatch /\ ~failCollect, 1, "finalize",
                        [owners |-> <<>>], [owners |-> <<>>])

\* finalizeRollingSucceeded that dispatches without EnableGC
finalizeRollingSucceeded_NoGC(cl, sourceAppRev, targetAppRev, failDispatch, failCollect, partial) ==
    DispatchTarget(cl, "plain", Nil, targetAppRev, failDispatch, failCollect,
                   partial)

\* finalizeRollingSucceeded that names the target's own tracker in EnableGC
finalizeRollingSucceeded_OwnTracker(cl, sourceAppRev, targetAppRev, failDispatch, failCollect, partial) ==
    DispatchTarget(cl, IF sourceAppRev # Nil THEN "gc" ELSE "plain",
                   IF sourceAppRev # Nil THEN targetAppRev ELSE Nil,
                   targetAppRev, failDispatch, failCollect, partial)

\* finalizeRollingSucceeded that enables GC whether or not there is a source
finalizeRollingSucceeded_AlwaysGC(cl, sourceAppRev, targetAppRev, failDispatch, failCollect, partial) ==
    DispatchTarget(cl, "gc", sourceAppRev, targetAppRev, failDispatch,
                   failCollect, partial)

\* r.finalizeRollingSucceeded(sourceAppRev, targetAppRev): dispatch the
\* target's manifests again, with GC against the source's tracker when
\* there is a source
finalizeRollingSucceeded(cl, sourceAppRev, targetAppRev, failDispatch, failCollect, partial) ==
    DispatchTarget(cl, IF sourceAppRev # Nil THEN "gc" ELSE "plain",
                   sourceAppRev, targetAppRev, failDispatch, failCollect,
                   partial)

\* handleRollingTerminated that forgets the Failed state
handleRollingTerminated_OnlySucceeded(status, targetAppRevisionName, sourceAppRevisionName) ==
    /\ status.RollingState = Succeeded
    /\ status.LastUpgradedTargetAppRevision = targetAppRevisionName
    /\ status.LastSourceAppRevision = sourceAppRevisionName

\* r.handleRollingTerminated
handleRollingTerminated(status, targetAppRevisionName, sourceAppRevisionName) ==
    /\ status.RollingState \in {Succeeded, Failed}
    /\ status.LastUpgradedTargetAppRevision = targetAppRevisionName
    /\ status.LastSourceAppRevision = sourceAppRevisionName

\* isRolloutModified without the test for the Deleting state
isRolloutModified_AlsoDeleting(spec, status) ==
    \/ /\ status.LastUpgradedTargetAppRevision # NoRev
       /\ status.LastUpgradedTargetAppRevision # spec.TargetAppRevisionName
    \/ /\ status.LastSourceAppRevision # NoRev
       /\ status.LastSourceAppRevision # spec.SourceAppRevisionName

\* isRolloutModified
isRolloutModified(spec, status) ==
    /\ status.RollingState # Deleting
    /\ \/ /\ status.LastUpgradedTargetAppRevision # NoRev
          /\ status.LastUpgradedTargetAppRevision # spec.TargetAppRevisionName
       \/ /\ status.LastSourceAppRevision # NoRev
          /\ status.LastSourceAppRevision # spec.SourceAppRevisionName

\* the record a pass keeps of what it did
NoLog ==
    [resolved |-> {}, dispatched |-> <<>>, events |-> <<>>,
     execCalled |-> FALSE, execIn |-> Initial, execOut |-> Initial,
     execTarget |-> Nil, execSource |-> Nil]

\* what DoReconcile has after it resolved and emitted the revisions
Located(err, status, cl, log, s, t) ==
    [err |-> err, status |-> status, cl |-> cl, log |-> log,
     sourceAppRev |-> s.rev, targetAppRev |-> t.rev]

\* firing AppLocated whether or not the target's manifests were emitted
LocateTargetEmitted_FireOnError(status, log, s, t, et) ==
    Located(et.err, StateTransition(status, AppLocatedEvent), et.cl,
            [log EXCEPT !.dispatched = @ \o et.dispatched,
                        !.events = Append(@, AppLocatedEvent)], s, t)

\* DoReconcile, lines 186-197: the target's manifests were emitted; fire
\* AppLocated
LocateTargetEmitted(status, log, s, t, et) ==
    IF et.err # ""
    THEN Located(et.err, status, et.cl,
                 [log EXCEPT !.dispatched = @ \o et.dispatched], s, t)
    ELSE Located("", StateTransition(status, AppLocatedEvent), et.cl,
                 [log EXCEPT !.dispatched = @ \o et.dispatched,
                             !.events = Append(@, AppLocatedEvent)], s, t)

\* DoReconcile, lines 171-197: the source's manifests were emitted; resolve
\* the target and, in LocatingTarget, emit its manifests
LocateSourceEmitted(status, log, targetAppRevisionName, s, t, es, in) ==
    LET logES == [log EXCEPT !.dispatched = @ \o es.dispatched]
        logET == [log EXCEPT !.dispatched = @ \o es.dispatched,
                             !.resolved = @ \cup {targetAppRevisionName}]
    IN  IF es.err # "" THEN Located(es.err, status, es.cl, logES, s, t)
        ELSE IF t.err # "" THEN Located(t.err, status, es.cl, logET, s, t)
        ELSE IF status.RollingState # LocatingTarget
        THEN Located("", status, es.cl, logET, s, t)
        ELSE LocateTargetEmitted(status, logET, s, t,
                 emitAppRevisionForRollout(es.cl, t.rev, s.rev,
                     in.fault = "tgtDispatch",
                     IF in.fault = "tgtVerify" THEN in.visibleAt ELSE 1,
                     in.fault = "tgtPatch", in.partial, in.owners))

\* DoReconcile, lines 146-197, with the outcome of the two getAppRevision
\* calls
LocateResolved(status, cl, log, targetAppRevisionName, sres, s, t, in) ==
    LET logS == [log EXCEPT !.resolved = @ \cup sres]
        logT == [log EXCEPT
                   !.resolved = @ \cup sres \cup {targetAppRevisionName}]
    IN  IF status.RollingState = Deleting
        THEN IF s.err \notin {"", "NotFound"}
             THEN Located(s.err, status, cl, logS, s, t)
             ELSE Located(t.err, status, cl, logT, s, t)
        ELSE IF s.err # "" THEN Located(s.err, status, cl, logS, s, t)
        ELSE LocateSourceEmitted(status, logS, targetAppRevisionName, s, t,
                 IF status.RollingState = LocatingTarget /\ s.rev # Nil
                 THEN emitAppRevisionForRollout(cl, s.rev, Nil,
                          in.fault = "srcDispatch",
                          IF in.fault = "srcVerify" THEN in.visibleAt ELSE 1,
                          in.fault = "srcPatch", in.partial, in.owners)
                 ELSE [err |-> "", cl |-> cl, dispatched |-> <<>>],
                 in)

\* DoReconcile, lines 146-198: resolve the source and the target revision
\* and, in LocatingTarget, emit their manifests and fire AppLocated
Locate(status, cl, log, targetAppRevisionName, sourceAppRevisionName, in) ==
    LocateResolved(status, cl, log, targetAppRevisionName,
        IF sourceAppRevisionName = NoRev THEN {}
        ELSE {sourceAppRevisionName},
        IF sourceAppRevisionName = NoRev THEN [rev |-> Nil, err |-> ""]
        ELSE getAppRevision(sourceAppRevisionName, in.fault = "getSource"),
        getAppRevision(targetAppRevisionName, in.fault = "getTarget"),
        in)

\* finalizing on any terminal state the plan executor reports
ShouldFinalize_AnyTerminal(rollingState) ==
    rollingState \in {Succeeded, Failed}

\* DoReconcile, line 218: only a succeeded rollout is finalized with GC
ShouldFinalize(rollingState) ==
    rollingState = Succeeded

\* DoReconcile, lines 200-230: hand the workloads to the rollout plan
\* executor, copy its status back, record the last revisions and finalize
RollOut(spec, loc, in) ==
    LET sourceWorkload == IF loc.sourceAppRev # Nil
                          THEN getWorkload(loc.sourceAppRev) ELSE Nil
        targetWorkload == getWorkload(loc.targetAppRev)
        rolled  == [loc.status EXCEPT !.RollingState = in.exec]
        status  == IF in.exec # Abandoning
                   THEN [rolled EXCEPT
                           !.LastUpgradedTargetAppRevision =
                               spec.TargetAppRevisionName,
                           !.LastSourceAppRevision =
                               spec.SourceAppRevisionName]
                   ELSE rolled
        log     == [loc.log EXCEPT !.execCalled = TRUE,
                                   !.execIn = loc.status.RollingState,
                                   !.execOut = in.exec,
                                   !.execTarget = targetWorkload,
                                   !.execSource = sourceWorkload]
        fin     == IF ShouldFinalize(in.exec)
                   THEN finalizeRollingSucceeded(loc.cl, loc.sourceAppRev,
                            loc.targetAppRev, in.fault = "gcDispatch",
                            in.fault = "gcCollect", in.partial)
                   ELSE [err |-> "", cl |-> loc.cl, dispatched |-> <<>>]
    IN  [err |-> fin.err, status |-> status, cl |-> fin.cl,
         log |-> [log EXCEPT !.dispatched = @ \o fin.dispatched]]

\* DoReconcile, lines 146-230, once the revisions are resolved and emitted
RollOutLocated(spec, loc, in) ==
    IF loc.err # ""
    THEN [err |-> loc.err, status |-> loc.status, cl |-> loc.cl,
          log |-> loc.log]
    ELSE RollOut(spec, loc, in)

\* Reconciler.DoReconcile on the in-memory object
DoReconcile(spec, status0, cl, in) ==
    LET status == IF status0.RollingState = Initial
                  THEN ResetStatus(status0) ELSE status0
    IN  IF handleRollingTerminated(status, spec.TargetAppRevisionName,
                                   spec.SourceAppRevisionName)
        THEN [err |-> "", status |-> status, cl |-> cl, log |-> NoLog]
        ELSE
          LET modified == isRolloutModified(spec, status)
              pinned   == modified /\ status.RollingState \notin Terminal
              targetAppRevisionName ==
                  IF pinned THEN status.LastUpgradedTargetAppRevision
                  ELSE spec.TargetAppRevisionName
              sourceAppRevisionName ==
                  IF pinned THEN status.LastSourceAppRevision
                  ELSE spec.SourceAppRevisionName
              marked == IF modified /\ ~pinned
                        THEN [status EXCEPT
                                !.LastUpgradedTargetAppRevision =
                                    spec.TargetAppRevisionName,
                                !.LastSourceAppRevision =
                                    spec.SourceAppRevisionName]
                        ELSE status
              status1 == IF modified
                         THEN StateTransition(marked, RollingModifiedEvent)
                         ELSE status
              log1 == IF modified
                      THEN [NoLog EXCEPT !.events = <<RollingModifiedEvent>>]
                      ELSE NoLog
          IN  RollOutLocated(spec,
                  Locate(status1, cl, log1, targetAppRevisionName,
                         sourceAppRevisionName, in),
                  in)

\* ------------------------------------------------------------------------
\* The stored object and the control plane's writes
\* ------------------------------------------------------------------------

NewStatus ==
    [RollingState |-> Initial,
     LastUpgradedTargetAppRevision |-> NoRev,
     LastSourceAppRevision |-> NoRev]

\* the revisions the user names as source and as target of the rollout
SourceRevs == {"r1"}
TargetRevs == {"r2", "r3"}

Specs ==
    [SourceAppRevisionName : SourceRevs \cup {NoRev},
     TargetAppRevisionName : TargetRevs,
     RevertOnDelete : {FALSE}]

\* the object once it has left the store
Gone ==
    [exists |-> FALSE,
     spec |-> [SourceAppRevisionName |-> NoRev,
               TargetAppRevisionName |-> "r2",
               RevertOnDelete |-> FALSE],
     status |-> NewStatus, finalizer |-> FALSE, deleting |-> FALSE]

\* r.Update(ctx, appRollout): writes the object's spec and metadata (the
\* status is a subresource); refused with a conflict when the stored object
\* was written after the copy was read.  An object that is being deleted
\* leaves the store with its last finalizer.
Update(stored, obj, conflict) ==
    IF conflict THEN stored
    ELSE IF stored.deleting /\ ~obj.finalizer THEN Gone
    ELSE [stored EXCEPT !.spec = obj.spec, !.finalizer = obj.finalizer]

\* updateStatus that writes the in-memory object without re-reading it
updateStatus_NoRefetch(stored, obj, fail) ==
    IF fail \/ ~stored.exists THEN stored
    ELSE [stored EXCEPT !.spec = obj.spec, !.status = obj.status]

\* updateStatus that gives up when the object was written since it was read
updateStatus_NoRetry(stored, obj, fail) ==
    IF fail \/ stale \/ ~stored.exists THEN stored
    ELSE [stored EXCEPT !.status = obj.status]

\* r.updateStatus: re-read the object, put the computed status on it and
\* write the status subresource, retrying on conflict
updateStatus(stored, obj, fail) ==
    IF fail \/ ~stored.exists THEN stored
    ELSE [stored EXCEPT !.status = obj.status]

\* handleFinalizer that removes the finalizer in any rolling state
handleFinalizer_AnyState(obj) ==
    IF ~obj.deleting
    THEN IF ~obj.finalizer
         THEN [done |-> TRUE, obj |-> [obj EXCEPT !.finalizer = TRUE],
               update |-> TRUE, events |-> <<>>]
         ELSE [done |-> FALSE, obj |-> obj, update |-> FALSE,
               events |-> <<>>]
    ELSE [done |-> TRUE, obj |-> [obj EXCEPT !.finalizer = FALSE],
          update |-> TRUE, events |-> <<>>]

\* r.handleFinalizer: register the finalizer, remove it from a terminated
\* rollout that is being deleted, or fire the Deleted event
handleFinalizer(obj) ==
    IF ~obj.deleting
    THEN IF ~obj.finalizer
         THEN [done |-> TRUE, obj |-> [obj EXCEPT !.finalizer = TRUE],
               update |-> TRUE, events |-> <<>>]
         ELSE [done |-> FALSE, obj |-> obj, update |-> FALSE,
               events |-> <<>>]
    ELSE IF obj.finalizer
    THEN IF obj.status.RollingState \in {Succeeded, Failed}
         THEN [done |-> TRUE, obj |-> [obj EXCEPT !.finalizer = FALSE],
               update |-> TRUE, events |-> <<>>]
         ELSE [done |-> FALSE,
               obj |-> [obj EXCEPT !.status =
                           StateTransition(@, RollingDeletedEvent)],
               update |-> FALSE, events |-> <<RollingDeletedEvent>>]
    ELSE [done |-> FALSE, obj |-> obj, update |-> FALSE, events |-> <<>>]

\* Reconcile, lines 101-105: DoReconcile returned r; write the status unless
\* it returned an error
Reconciled(hf, start, stored, r, in) ==
    LET fail == r.err = "" /\ in.fault = "update"
    IN  [stored |-> IF r.err # "" THEN stored
                    ELSE updateStatus(stored,
                             [hf.obj EXCEPT !.status = r.status], fail),
         cl |-> r.cl,
         last |-> [kind |-> "reconcile", start |-> start,
                   log |-> [r.log EXCEPT !.events = hf.events \o @],
                   computed |-> r.status,
                   err |-> IF fail THEN "update" ELSE r.err,
                   wrote |-> r.err = "" /\ ~fail /\ stored.exists]]

\* Reconcile, lines 95-105, with the outcome of handleFinalizer
Finalized(hf, start, stored, conflict, cl, in) ==
    IF hf.done
    THEN [stored |-> Update(stored, hf.obj, conflict \/ in.fault = "update"),
          cl |-> cl,
          last |-> [kind |-> "finalizer", start |-> start,
                    log |-> NoLog, computed |-> hf.obj.status,
                    err |-> IF conflict \/ in.fault = "update"
                            THEN "update" ELSE "",
                    wrote |-> FALSE]]
    ELSE Reconciled(hf, start, stored,
                    DoReconcile(hf.obj.spec, hf.obj.status, cl, in), in)

\* Reconciler.Reconcile after the object was read: what the pass leaves in
\* the store and in the cluster, and the record of what it did
Reconcile(obj, changed, stored, conflict, cl, in) ==
    Finalized(handleFinalizer(obj),
              [spec |-> obj.spec, status |-> obj.status,
               finalizer |-> obj.finalizer, deleting |-> obj.deleting,
               changed |-> changed],
              stored, conflict, cl, in)

\* ------------------------------------------------------------------------
\* Initial state and actions
\* ------------------------------------------------------------------------

NoPass ==
    [kind |-> "none",
     start |-> [spec |-> Gone.spec, status |-> NewStatus,
                finalizer |-> FALSE, deleting |-> FALSE, changed |-> FALSE],
     log |-> NoLog, computed |-> NewStatus, err |-> "", wrote |-> FALSE]

\* the stored states of a rollout that is under way
InFlight == {LocatingTarget, Rolling, Abandoning}

\* the pass restarted a terminated rollout for a changed source or target
Restarted(pass) ==
    /\ pass.kind = "reconcile"
    /\ pass.start.status.RollingState \in Terminal
    /\ pass.log.events # <<>>
    /\ pass.log.events[1] = RollingModifiedEvent

NoLocal == [obj |-> Gone, changed |-> FALSE]

\* no second rollout
NoPeer == [obj |-> Gone, last |-> NoPass]

\* a new rollout to rev-2, from rev-1 or as a scale operation; rev-2 is
\* not yet recorded
Init ==
    /\ \E sp \in Specs :
          /\ sp.TargetAppRevisionName = "r2"
          /\ appRollout = [exists |-> TRUE, spec |-> sp, status |-> NewStatus,
                           finalizer |-> FALSE, deleting |-> FALSE]
    /\ revisions = Revs \ {"r2"}
    /\ malformed = {}
    /\ cluster = [live |-> {}, rts |-> {}, tracked |-> [r \in Revs |-> {}]]
    /\ pc = "idle"
    /\ local = NoLocal
    /\ stale = FALSE
    /\ last = NoPass
    /\ midFlight = FALSE
    /\ peer = NoPeer
    /\ appRevision = Nil
    /\ workloadOptions = <<>>
    /\ assembled = <<>>

\* the external reconciler records a new ApplicationRevision
CreateRevision(rev) ==
    /\ pc = "idle"
    /\ rev \notin revisions
    /\ revisions' = revisions \cup {rev}
    /\ last' = NoPass
    /\ UNCHANGED <<appRollout, malformed, cluster, pc, local, stale,
                   midFlight>>
    /\ UNCHANGED peer
    /\ UNCHANGED asmVars

\* the user edits the rollout's source or target, between two passes
\* (during = FALSE) or while a pass is working on the copy it read
EditSpec(sp, during) ==
    /\ pc = (IF during THEN "fetched" ELSE "idle")
    /\ appRollout.exists
    /\ sp # appRollout.spec
    /\ appRollout' = [appRollout EXCEPT !.spec = sp]
    /\ stale' = during
    /\ midFlight' =
          IF appRollout.status.RollingState \in InFlight THEN TRUE
          ELSE IF appRollout.status.RollingState \in Terminal THEN FALSE
          ELSE midFlight
    /\ last' = NoPass
    /\ UNCHANGED <<revisions, malformed, cluster, pc, local>>
    /\ UNCHANGED peer
    /\ UNCHANGED asmVars

\* the user asks for the rollout's deletion: the object stays in the store
\* for as long as it carries a finalizer
RequestDelete(during) ==
    /\ pc = (IF during THEN "fetched" ELSE "idle")
    /\ appRollout.exists
    /\ ~appRollout.deleting
    /\ appRollout' = IF appRollout.finalizer
                     THEN [appRollout EXCEPT !.deleting = TRUE]
                     ELSE Gone
    /\ stale' = during
    /\ last' = NoPass
    /\ UNCHANGED <<revisions, malformed, cluster, pc, local, midFlight>>
    /\ UNCHANGED peer
    /\ UNCHANGED asmVars

UserSetSpec(sp) == EditSpec(sp, FALSE)

UserDelete == RequestDelete(FALSE)

ConcurrentSetSpec(sp) == EditSpec(sp, TRUE)

ConcurrentDelete == RequestDelete(TRUE)

\* Reconcile, line 87: the pass reads the object
ReconcileGet ==
    /\ pc = "idle"
    /\ appRollout.exists
    /\ pc' = "fetched"
    /\ local' = [obj |-> appRollout, changed |-> midFlight]
    /\ stale' = FALSE
    /\ last' = NoPass
    /\ UNCHANGED <<appRollout, revisions, malformed, cluster, midFlight>>
    /\ UNCHANGED peer
    /\ UNCHANGED asmVars

\* Reconcile, lines 95-105: handleFinalizer, DoReconcile and updateStatus
ReconcileRun(in) ==
    /\ pc = "fetched"
    /\ \E r \in {Reconcile(local.obj, local.changed, appRollout, stale,
                           cluster, in)} :
           /\ IF r.last.log.execCalled
              THEN in.exec \in ExecutorNext(r.last.log.execIn)
              ELSE in.exec = Initial
           /\ appRollout' = r.stored
           /\ cluster' = r.cl
           /\ last' = r.last
           /\ midFlight' = (midFlight /\ r.stored.exists /\ ~Restarted(r.last))
    /\ pc' = "idle"
    /\ local' = NoLocal
    /\ stale' = FALSE
    /\ UNCHANGED <<revisions, malformed>>
    /\ UNCHANGED peer
    /\ UNCHANGED asmVars

Next ==
    \/ \E rev \in Revs : CreateRevision(rev)
    \/ \E sp \in Specs : UserSetSpec(sp)
    \/ UserDelete
    \/ ReconcileGet
    \/ \E in \in Inputs : ReconcileRun(in)

Spec == Init /\ [][Next]_vars

\* the user also writes the object while a pass is running; the control
\* plane fails only on the writes of the rollout object
ObjectFaults == {"none", "update"}

NextConcurrent ==
    \/ \E rev \in Revs : CreateRevision(rev)
    \/ \E sp \in Specs : UserSetSpec(sp)
    \/ UserDelete
    \/ \E sp \in Specs : ConcurrentSetSpec(sp)
    \/ ConcurrentDelete
    \/ ReconcileGet
    \/ \E in \in Inputs : in.fault \in ObjectFaults /\ ReconcileRun(in)

SpecConcurrent == Init /\ [][NextConcurrent]_vars

\* the same rollout when one of the revisions cannot be assembled into
\* manifests
InitMalformed ==
    /\ \E sp \in Specs :
          /\ sp.TargetAppRevisionName = "r2"
          /\ appRollout = [exists |-> TRUE, spec |-> sp, status |-> NewStatus,
                           finalizer |-> FALSE, deleting |-> FALSE]
    /\ revisions = Revs \ {"r3"}
    /\ \E rev \in Revs : malformed = {rev}
    /\ cluster = [live |-> {}, rts |-> {}, tracked |-> [r \in Revs |-> {}]]
    /\ pc = "idle"
    /\ local = NoLocal
    /\ stale = FALSE
    /\ last = NoPass
    /\ midFlight = FALSE
    /\ peer = NoPeer
    /\ appRevision = Nil
    /\ workloadOptions = <<>>
    /\ assembled = <<>>

SpecMalformed == InitMalformed /\ [][Next]_vars

\* passes on a control plane that does not fail
ReconcileOK(exec) ==
    ReconcileRun([fault |-> "none", partial |-> 0, exec |-> exec,
                  visibleAt |-> 1, owners |-> <<AppOwnerRef>>])

NextLive ==
    \/ \E rev \in Revs : CreateRevision(rev)
    \/ \E sp \in Specs : UserSetSpec(sp)
    \/ UserDelete
    \/ ReconcileGet
    \/ \E exec \in RollingStates : ReconcileOK(exec)

\* Reconcile, lines 87-105: a pass that read the object runs to its end
\* (the steps of NextLive that end a pass are those of ReconcileOK, which is
\* enabled whenever a pass has read the object)
PassEnds == pc = "fetched" /\ pc' = "idle"

\* the pass invoked the plan executor
Invoked == last.kind = "reconcile" /\ last.log.execCalled

\* the plan executor reported a terminal state
Unwound == Invoked /\ last.log.execOut \in Terminal

\* the work queue runs a pass for as long as the object exists and requeues
\* a pass that failed; a plan executor that is invoked again and again does
\* not stay in a rolling state for ever
SpecLive ==
    /\ Init
    /\ [][NextLive]_vars
    /\ WF_vars(ReconcileGet)
    /\ WF_pc(PassEnds)
    /\ ([]<>Invoked => []<>Unwound)

\* two new rollouts of the same application, each to a target the user
\* names
InitParallel ==
    /\ \E sp \in Specs :
          appRollout = [exists |-> TRUE, spec |-> sp, status |-> NewStatus,
                        finalizer |-> FALSE, deleting |-> FALSE]
    /\ \E sp \in Specs :
          peer = [obj |-> [exists |-> TRUE, spec |-> sp, status |-> NewStatus,
                           finalizer |-> FALSE, deleting |-> FALSE],
                  last |-> NoPass]
    /\ revisions = Revs \ {"r2"}
    /\ malformed = {}
    /\ cluster = [live |-> {}, rts |-> {}, tracked |-> [r \in Revs |-> {}]]
    /\ pc = "idle"
    /\ local = NoLocal
    /\ stale = FALSE
    /\ last = NoPass
    /\ midFlight = FALSE
    /\ appRevision = Nil
    /\ workloadOptions = <<>>
    /\ assembled = <<>>

\* Reconcile on the second rollout, between two passes of the first (the
\* controller is set up with one worker): the same pass on the same cluster
PeerReconcile(exec) ==
    /\ pc = "idle"
    /\ peer.obj.exists
    /\ \E r \in {Reconcile(peer.obj, FALSE, peer.obj, FALSE, cluster,
                           [fault |-> "none", partial |-> 0, exec |-> exec,
                            visibleAt |-> 1, owners |-> <<AppOwnerRef>>])} :
           /\ IF r.last.log.execCalled
              THEN exec \in ExecutorNext(r.last.log.execIn)
              ELSE exec = Initial
           /\ peer' = [obj |-> r.stored, last |-> r.last]
           /\ cluster' = r.cl
    /\ UNCHANGED <<appRollout, revisions, malformed, pc, local, stale, last,
                   midFlight>>
    /\ UNCHANGED asmVars

NextParallel ==
    \/ \E rev \in Revs : CreateRevision(rev)
    \/ ReconcileGet
    \/ \E exec \in RollingStates : ReconcileOK(exec)
    \/ \E exec \in RollingStates : PeerReconcile(exec)

SpecParallel == InitParallel /\ [][NextParallel]_vars

\* the revisions whose resource tracker a pass dispatched into, adopted
\* from or garbage-collected
Drives(pass) ==
    UNION {{pass.log.dispatched[i].rev} \cup
           (IF pass.log.dispatched[i].mode \in {"adopt", "gc"}
            THEN {pass.log.dispatched[i].prior} ELSE {}) :
           i \in DOMAIN pass.log.dispatched}

\* the most owner references a workload read back carries
MaxOwners == 2

OwnerNames == {"app", "tracker"}

\* metav1.OwnerReference: Controller is a pointer to a boolean
OwnerRefs == [name : OwnerNames, controller : {"nil", "true", "false"}]

\* the owner references a workload may carry: no owner is named twice
OwnerLists ==
    UNION {{o \in [1..n -> OwnerRefs] :
               \A i, j \in 1..n : o[i].name = o[j].name => i = j} :
           n \in 0..MaxOwners}

\* passes that read back workloads with any owner references and may fail
\* to patch them
OwnerInputs ==
    [fault : {"none", "srcPatch", "tgtPatch"}, partial : {0},
     exec : RollingStates, visibleAt : {1}, owners : OwnerLists]

NextOwners ==
    \/ \E rev \in Revs : CreateRevision(rev)
    \/ \E sp \in Specs : UserSetSpec(sp)
    \/ UserDelete
    \/ ReconcileGet
    \/ \E in \in OwnerInputs : ReconcileRun(in)

SpecOwners == Init /\ [][NextOwners]_vars

\* an ApplicationRevision is deleted (the application controller cleans up
\* old revisions)
DeleteRevision(rev) ==
    /\ pc = "idle"
    /\ rev \in revisions
    /\ revisions' = revisions \ {rev}
    /\ last' = NoPass
    /\ UNCHANGED <<appRollout, malformed, cluster, pc, local, stale,
                   midFlight>>
    /\ UNCHANGED peer
    /\ UNCHANGED asmVars

\* the passes of a control plane that does not fail, with revisions that
\* come and go
NextGone ==
    \/ \E rev \in Revs : CreateRevision(rev)
    \/ \E rev \in Revs : DeleteRevision(rev)
    \/ \E sp \in Specs : UserSetSpec(sp)
    \/ UserDelete
    \/ ReconcileGet
    \/ \E exec \in RollingStates : ReconcileOK(exec)

SpecGone == Init /\ [][NextGone]_vars

TypeOK ==
    /\ appRollout.status.RollingState \in RollingStates
    /\ pc \in {"idle", "fetched"}
    /\ cluster.live \subseteq Res

\* ------------------------------------------------------------------------
\* Assembler: labels, annotations and the maps they are kept in
\* ------------------------------------------------------------------------

LabelAppName              == "app.oam.dev/name"
LabelAppRevision          == "app.oam.dev/appRevision"
LabelAppRevisionHash      == "app.oam.dev/app-revision-hash"
LabelAppComponent         == "app.oam.dev/component"
LabelAppComponentRevision == "app.oam.dev/revision"
LabelOAMResourceType      == "app.oam.dev/resourceType"
WorkloadTypeLabel         == "workload.oam.dev/type"
TraitTypeLabel            == "trait.oam.dev/type"
ResourceTypeWorkload      == "WORKLOAD"
ResourceTypeTrait         == "TRAIT"

\* the labels generateCommonLables computes from the revision and component
CanonicalLabels ==
    {LabelAppName, LabelAppRevision, LabelAppRevisionHash, LabelAppComponent,
     LabelAppComponentRevision}

AnnotationAppRollout       == "AnnotationAppRollout"
AnnotationRollingComponent == "AnnotationRollingComponent"
AnnotationInplaceUpgrade   == "AnnotationInplaceUpgrade"

\* the annotations setAnnotations removes
RolloutAnnotations ==
    {AnnotationAppRollout, AnnotationRollingComponent,
     AnnotationInplaceUpgrade}

\* a map without keys
EmptyMap == [k \in {} |-> ""]

\* m[k] of a Go map: the zero value when the key is absent
Lookup(m, k) == IF k \in DOMAIN m THEN m[k] ELSE ""

\* util.MergeMapOverrideWithDst(src, dst): the union of both maps; on a key
\* both hold, dst's value overrides src's
MergeMapOverrideWithDst(src, dst) ==
    [k \in DOMAIN src \cup DOMAIN dst |->
        IF k \in DOMAIN dst THEN dst[k] ELSE src[k]]

\* util.AddLabels(o, labels): merge labels into the object's, new values
\* overriding existing ones
AddLabels(obj, labels) ==
    [obj EXCEPT !.labels = MergeMapOverrideWithDst(obj.labels, labels)]

\* util.AddAnnotations(o, annos)
AddAnnotations(obj, annos) ==
    [obj EXCEPT !.annotations =
        MergeMapOverrideWithDst(obj.annotations, annos)]

\* util.RemoveAnnotations(o, keys)
RemoveAnnotations(obj, keys) ==
    [obj EXCEPT !.annotations =
        [k \in DOMAIN obj.annotations \ keys |-> obj.annotations[k]]]

\* ------------------------------------------------------------------------
\* Assembler: the revisions it is given
\* ------------------------------------------------------------------------

\* object names are tuples of their parts; the empty tuple is the
\* unspecified name
NoName == <<>>

\* the component of the revision's application configuration
CompRevisionName == "comp-v1"

\* ctrlutil.ExtractComponentName: the component a component revision is of
ExtractComponentName(compRevisionName) ==
    CASE compRevisionName = "comp-v1" -> "comp"
      [] OTHER -> compRevisionName

\* what the render phase left in the revision: the component's workload
RenderedWorkloads ==
    LET plain == [bad |-> FALSE, apiVersion |-> "apps/v1",
                  kind |-> "Deployment", name |-> NoName, namespace |-> "",
                  labels |-> (WorkloadTypeLabel :> "worker"),
                  annotations |-> EmptyMap, owners |-> <<>>,
                  ref |-> <<>>, raw |-> "w"]
    IN  {plain,
         [plain EXCEPT !.bad = TRUE],
         [plain EXCEPT
            !.name = <<"rendered">>, !.namespace = "other",
            !.labels = (WorkloadTypeLabel :> "worker"
                        @@ LabelAppName :> "rendered"),
            !.annotations = (AnnotationAppRollout :> "true"
                             @@ "note" :> "rendered"),
            !.owners = <<"helm">>]}

\* ... and the traits of the component
RenderedTraits ==
    LET plain == [bad |-> FALSE, apiVersion |-> "core.oam.dev/v1alpha2",
                  kind |-> "Ingress", name |-> NoName, namespace |-> "",
                  labels |-> (TraitTypeLabel :> "ingress"),
                  annotations |-> EmptyMap, owners |-> <<>>,
                  ref |-> <<>>, raw |-> "t1"]
    IN  {plain,
         [plain EXCEPT !.bad = TRUE, !.raw = "t0"],
         [plain EXCEPT
            !.kind = "ManualScaler", !.raw = "t2",
            !.name = <<"given">>, !.namespace = "other",
            !.labels = (TraitTypeLabel :> "scaler"
                        @@ LabelAppComponent :> "rendered"),
            !.annotations = (AnnotationRollingComponent :> "comp"),
            !.owners = <<"helm">>],
         [plain EXCEPT
            !.kind = "Route", !.raw = "t3",
            !.labels = (TraitTypeLabel :> "route")]}

\* the most traits a component has
MaxTraits == 2

TraitLists == UNION {[1..n -> RenderedTraits] : n \in 0..MaxTraits}

\* the application's own labels: none, or a label of its own together with
\* labels under canonical keys
AppLabelSets ==
    {EmptyMap,
     ("team" :> "blue" @@ LabelAppName :> "other"
      @@ LabelAppComponent :> "other")}

\* the application's annotations: none, or a description together with the
\* three rollout markers
AppAnnotationSets ==
    {EmptyMap,
     ("description" :> "demo" @@ AnnotationAppRollout :> "true"
      @@ AnnotationRollingComponent :> "comp"
      @@ AnnotationInplaceUpgrade :> "true")}

\* the ApplicationRevisions an assembler is made for.  owner is the
\* controller owner of the application configuration, hash the revision-hash
\* label, hasComp whether the revision holds the component's document
AppRevisions ==
    [Name : {"myapp-v1"}, AppName : {"myapp"}, AppNamespace : {"ns"},
     owner : {Nil, "Application"}, hash : {"", "h1"},
     AppLables : AppLabelSets, AppAnnotations : AppAnnotationSets,
     compRevisionName : {CompRevisionName}, hasComp : BOOLEAN,
     workload : RenderedWorkloads, traits : TraitLists,
     scopes : {<<"scope">>}]

\* TraitDefinition.Spec.WorkloadRefPath of a trait type
WorkloadRefPath(traitType) ==
    CASE traitType = "ingress" -> "spec.workloadRef"
      [] traitType = "route" -> "spec[workloadRef"
      [] OTHER -> ""

\* the workload options a caller adds
WorkloadOptionKinds == {"UseRevisionName", "AddSuffix", "Reject"}

\* the most workload options added to one assembler
MaxOptions == 2

\* WorkloadOption.ApplyToWorkload
ApplyToWorkload(opt, wl, compRevisionName) ==
    CASE opt = "UseRevisionName" ->
            [err |-> "", wl |-> [wl EXCEPT !.name = <<compRevisionName>>]]
      [] opt = "AddSuffix" ->
            [err |-> "", wl |-> [wl EXCEPT !.name = Append(@, "canary")]]
      [] OTHER -> [err |-> "option", wl |-> wl]

\* ------------------------------------------------------------------------
\* Assembler: Options and Assemble
\* ------------------------------------------------------------------------

\* Options.complete: read the application's metadata from the revision's
\* application configuration and start with empty results
complete(appRev, opts) ==
    [AppRevision |-> appRev, WorkloadOptions |-> opts,
     AppName |-> appRev.AppName, AppNamespace |-> appRev.AppNamespace,
     AppLables |-> appRev.AppLables,
     AppAnnotations |-> appRev.AppAnnotations,
     AppOwnerRef |-> appRev.owner,
     AssembledWorkloads |-> EmptyMap, AssembledTraits |-> EmptyMap,
     ReferencedScopes |-> EmptyMap]

\* validate that only asks for the owner
validate_OwnerOnly(o) ==
    IF o.AppOwnerRef = Nil THEN "owner" ELSE ""

\* Options.validate
validate(o) ==
    IF o.AppOwnerRef = Nil THEN "owner"
    ELSE IF o.AppRevision.hash = "" THEN "hash"
    ELSE ""

\* util.RawExtension2Unstructured: decode a raw document
RawExtension2Unstructured(raw) ==
    [err |-> IF raw.bad THEN "decode" ELSE "", obj |-> raw]

\* setWorkloadName that keeps a name set at render time
setWorkloadName_KeepRendered(wl, compName) ==
    IF wl.name = NoName THEN [wl EXCEPT !.name = <<compName>>] ELSE wl

\* Options.setWorkloadName
setWorkloadName(wl, compName) ==
    [wl EXCEPT !.name = <<compName>>]

\* util.GenTraitName: a name made of the component, the trait type and a
\* hash of the trait
GenTraitName(compName, compTrait, traitType) ==
    <<compName, traitType, compTrait.raw>>

\* setTraitName whose generated name differs from call to call
setTraitName_PerCall(trait, compName, traitType, compTrait) ==
    IF trait.name = NoName
    THEN [trait EXCEPT !.name =
            <<compName, traitType, compTrait.raw, Len(assembled)>>]
    ELSE trait

\* Options.setTraitName
setTraitName(trait, compName, traitType, compTrait) ==
    IF trait.name = NoName
    THEN [trait EXCEPT !.name = GenTraitName(compName, compTrait, traitType)]
    ELSE trait

\* Options.generateCommonLables
generateCommonLables(o, compName, compRevisionName) ==
    LET lables == (LabelAppName :> o.AppName
                   @@ LabelAppRevision :> o.AppRevision.Name
                   @@ LabelAppRevisionHash :> o.AppRevision.hash
                   @@ LabelAppComponent :> compName
                   @@ LabelAppComponentRevision :> compRevisionName)
    IN  MergeMapOverrideWithDst(lables, o.AppLables)

\* Options.setWorkloadLables
setWorkloadLables(wl, commonLables) ==
    AddLabels(AddLabels(wl, (LabelOAMResourceType :> ResourceTypeWorkload)),
              commonLables)

\* Options.setTraitLables
setTraitLables(trait, commonLables) ==
    AddLabels(AddLabels(trait, (LabelOAMResourceType :> ResourceTypeTrait)),
              commonLables)

\* setAnnotations that removes the markers before it adds the application's
setAnnotations_RemoveFirst(o, obj) ==
    AddAnnotations(RemoveAnnotations(obj, RolloutAnnotations),
                   o.AppAnnotations)

\* Options.setAnnotations
setAnnotations(o, obj) ==
    RemoveAnnotations(AddAnnotations(obj, o.AppAnnotations),
                      RolloutAnnotations)

\* Options.setNamespace
setNamespace(o, obj) ==
    IF obj.namespace = "" THEN [obj EXCEPT !.namespace = o.AppNamespace]
    ELSE obj

\* setOwnerReference that adds the application to the owners the object has
setOwnerReference_Append(o, obj) ==
    [obj EXCEPT !.owners = Append(@, o.AppOwnerRef)]

\* Options.setOwnerReference
setOwnerReference(o, obj) ==
    [obj EXCEPT !.owners = <<o.AppOwnerRef>>]

\* the field paths fieldpath cannot parse
MalformedPaths == {"spec[workloadRef"}

\* fieldpath.Pave(trait).SetValue(path, wlRef): fails on a path it cannot
\* parse
SetValue(trait, path, wlRef) ==
    IF path \in MalformedPaths THEN [err |-> "ref", trait |-> trait]
    ELSE [err |-> "", trait |-> [trait EXCEPT !.ref = wlRef]]

\* setWorkloadRefToTrait that does not ask whether the trait wants it
setWorkloadRefToTrait_Always(wlRef, trait) ==
    [err |-> "", trait |-> [trait EXCEPT !.ref = wlRef]]

\* Options.setWorkloadRefToTrait
setWorkloadRefToTrait(wlRef, trait) ==
    LET traitType == Lookup(trait.labels, TraitTypeLabel)
        workloadRefPath == WorkloadRefPath(traitType)
    IN  IF workloadRefPath # ""
        THEN SetValue(trait, workloadRefPath, wlRef)
        ELSE [err |-> "", trait |-> trait]

\* the workload options applied from the last added to the first
RECURSIVE ApplyWorkloadOptions_LastFirst(_, _, _)
ApplyWorkloadOptions_LastFirst(opts, wl, compRevisionName) ==
    IF opts = <<>> THEN [err |-> "", wl |-> wl]
    ELSE LET r == ApplyToWorkload(opts[Len(opts)], wl, compRevisionName)
         IN  IF r.err # "" THEN r
             ELSE ApplyWorkloadOptions_LastFirst(
                      SubSeq(opts, 1, Len(opts) - 1), r.wl, compRevisionName)

\* assemble, lines 113-118: the workload options, in the order they
\* were added
RECURSIVE ApplyWorkloadOptions(_, _, _)
ApplyWorkloadOptions(opts, wl, compRevisionName) ==
    IF opts = <<>> THEN [err |-> "", wl |-> wl]
    ELSE LET r == ApplyToWorkload(Head(opts), wl, compRevisionName)
         IN  IF r.err # "" THEN r
             ELSE ApplyWorkloadOptions(Tail(opts), r.wl, compRevisionName)

\* assemble, lines 101-127: the component's workload and the reference to it
AssembleWorkload(o, compName, compRevisionName, commonLables) ==
    IF ~o.AppRevision.hasComp
    THEN [err |-> "", found |-> FALSE, wl |-> o.AppRevision.workload,
          workloadRef |-> <<"", "", NoName>>]
    ELSE
      LET d   == RawExtension2Unstructured(o.AppRevision.workload)
          wl  == setOwnerReference(o,
                   setNamespace(o,
                     setAnnotations(o,
                       setWorkloadLables(
                         setWorkloadName(d.obj, compName), commonLables))))
          opt == ApplyWorkloadOptions(o.WorkloadOptions, wl,
                                      compRevisionName)
      IN  IF d.err # ""
          THEN [err |-> d.err, found |-> FALSE, wl |-> d.obj,
                workloadRef |-> <<"", "", NoName>>]
          ELSE [err |-> opt.err, found |-> opt.err = "", wl |-> opt.wl,
                workloadRef |-> <<opt.wl.apiVersion, opt.wl.kind,
                                  opt.wl.name>>]

\* assemble, lines 129-146: the component's traits, in their order
RECURSIVE AssembleTraits(_, _, _, _, _)
AssembleTraits(o, compTraits, compName, commonLables, workloadRef) ==
    IF compTraits = <<>> THEN [err |-> "", traits |-> <<>>]
    ELSE
      LET compTrait == Head(compTraits)
          d         == RawExtension2Unstructured(compTrait)
          traitType == Lookup(d.obj.labels, TraitTypeLabel)
          trait     == setOwnerReference(o,
                         setNamespace(o,
                           setAnnotations(o,
                             setTraitLables(
                               setTraitName(d.obj, compName, traitType,
                                            compTrait),
                               commonLables))))
          r         == setWorkloadRefToTrait(workloadRef, trait)
          rest      == AssembleTraits(o, Tail(compTraits), compName,
                                      commonLables, workloadRef)
      IN  IF d.err # "" THEN [err |-> d.err, traits |-> <<>>]
          ELSE IF r.err # "" THEN [err |-> r.err, traits |-> <<>>]
          ELSE IF rest.err # "" THEN rest
          ELSE [err |-> "", traits |-> <<r.trait>> \o rest.traits]

\* Options.assemble: fill AssembledWorkloads, AssembledTraits and
\* ReferencedScopes from the component of the application configuration
assemble(o) ==
    LET compRevisionName == o.AppRevision.compRevisionName
        compName     == ExtractComponentName(compRevisionName)
        commonLables == generateCommonLables(o, compName, compRevisionName)
        w == AssembleWorkload(o, compName, compRevisionName, commonLables)
        t == AssembleTraits(o, o.AppRevision.traits, compName, commonLables,
                            w.workloadRef)
        withWl == IF w.found
                  THEN [o EXCEPT !.AssembledWorkloads = (compName :> w.wl)]
                  ELSE o
    IN  IF w.err # "" THEN [err |-> w.err, o |-> o]
        ELSE IF t.err # "" THEN [err |-> t.err, o |-> withWl]
        ELSE [err |-> "",
              o |-> [withWl EXCEPT
                       !.AssembledTraits = (compName :> t.traits),
                       !.ReferencedScopes =
                           (compName :> o.AppRevision.scopes)]]

\* what Assemble returns with an error
NoManifests(err) ==
    [err |-> err, workloads |-> EmptyMap, traits |-> EmptyMap,
     scopes |-> EmptyMap]

\* Options.Assemble
Assemble(appRev, opts) ==
    LET o == complete(appRev, opts)
        v == validate(o)
        a == assemble(o)
    IN  IF v # "" THEN NoManifests(v)
        ELSE IF a.err # "" THEN NoManifests(a.err)
        ELSE [err |-> "", workloads |-> a.o.AssembledWorkloads,
              traits |-> a.o.AssembledTraits,
              scopes |-> a.o.ReferencedScopes]

\* ------------------------------------------------------------------------
\* Assembler: a caller makes an assembler for a revision, adds workload
\* options and calls Assemble
\* ------------------------------------------------------------------------

\* the most calls of Assemble on one assembler
MaxCalls == 2

\* NewAssembleOptions(appRevision), with the rollout controller at rest
InitAssemble ==
    /\ appRevision \in AppRevisions
    /\ workloadOptions = <<>>
    /\ assembled = <<>>
    /\ appRollout = Gone
    /\ revisions = {}
    /\ malformed = {}
    /\ cluster = [live |-> {}, rts |-> {}, tracked |-> [r \in Revs |-> {}]]
    /\ pc = "idle"
    /\ local = NoLocal
    /\ stale = FALSE
    /\ last = NoPass
    /\ midFlight = FALSE
    /\ peer = NoPeer

\* Options.WithWorkloadOption
WithWorkloadOption(wo) ==
    /\ assembled = <<>>
    /\ Len(workloadOptions) < MaxOptions
    /\ workloadOptions' = Append(workloadOptions, wo)
    /\ UNCHANGED <<appRevision, assembled>>
    /\ UNCHANGED ctrlVars

\* a call of Options.Assemble
AssembleCall ==
    /\ Len(assembled) < MaxCalls
    /\ assembled' = Append(assembled, Assemble(appRevision, workloadOptions))
    /\ UNCHANGED <<appRevision, workloadOptions>>
    /\ UNCHANGED ctrlVars

NextAssemble ==
    \/ \E wo \in WorkloadOptionKinds : WithWorkloadOption(wo)
    \/ AssembleCall

SpecAssemble == InitAssemble /\ [][NextAssemble]_vars

\* ------------------------------------------------------------------------
\* Properties
\* ------------------------------------------------------------------------

\* the step in which a pass runs on the copy it read
RunStep == pc = "fetched" /\ pc' = "idle"

\* the spec names the revisions the status recorded last
Unchanged(obj) ==
    /\ obj.status.LastUpgradedTargetAppRevision =
          obj.spec.TargetAppRevisionName
    /\ obj.status.LastSourceAppRevision = obj.spec.SourceAppRevisionName

\* C1: a pass that enters DoReconcile with RollingState Succeeded or Failed
\* and with the last recorded target and source equal to the spec's is a
\* no-op: no revision is resolved, nothing is dispatched or deleted (the
\* cluster is unchanged), the plan executor is not invoked, no event is
\* fired and the status is left as it was.
C1_TerminalNoOp ==
    [][(/\ RunStep
        /\ last'.kind = "reconcile"
        /\ local.obj.status.RollingState \in {Succeeded, Failed}
        /\ Unchanged(local.obj))
       => (/\ last'.log = NoLog
           /\ cluster' = cluster
           /\ appRollout'.status = appRollout.status
           /\ appRollout'.status = local.obj.status)]_vars

\* a pass entered DoReconcile on a terminated rollout whose spec is unchanged
C1_Witness ==
    /\ last.kind = "reconcile"
    /\ last.start.status.RollingState \in {Succeeded, Failed}
    /\ Unchanged(last.start)
    /\ cluster.live # {}

\* the revisions a pass resolved, dispatched or handed to the plan executor
WorkedOn(pass) ==
    pass.log.resolved
    \cup {pass.log.dispatched[i].rev : i \in DOMAIN pass.log.dispatched}
    \cup ({pass.log.execTarget, pass.log.execSource} \ {Nil})

\* C2: after the user changed the spec's source or target while the rollout
\* was under way (not terminal, not deleting), every pass until a terminal
\* state is reached works only on the revisions recorded last in the status:
\* it resolves, dispatches and hands to the plan executor no other revision.
C2_PinnedUntilTerminal ==
    (/\ last.kind = "reconcile"
     /\ last.start.changed
     /\ ~last.start.deleting
     /\ last.start.status.RollingState \in InFlight)
    => WorkedOn(last) \subseteq
          {last.start.status.LastUpgradedTargetAppRevision,
           last.start.status.LastSourceAppRevision}

\* C3: a change of source or target made while the rollout was under way is
\* not lost.  When the pass that brings the rollout to a terminal state has
\* rolled another target than the spec names, the status it stores must
\* still differ from the spec: otherwise every later pass is a no-op (C1) and
\* the Modified event for the new target never fires.
C3_ChangeNotLost ==
    (/\ last.kind = "reconcile"
     /\ last.wrote
     /\ last.start.changed
     /\ ~last.start.deleting
     /\ last.log.execCalled
     /\ appRollout.status.RollingState \in Terminal
     /\ last.log.execTarget # appRollout.spec.TargetAppRevisionName)
    => ~Unchanged(appRollout)

\* C4: a pass that enters DoReconcile in a terminal state with a spec whose
\* source or target differs from the one recorded last (a source changed
\* from empty to a revision included) fires the Modified event and records
\* the new spec values as the last revisions.
C4_TerminalModified ==
    (/\ last.kind = "reconcile"
     /\ last.start.status.RollingState \in Terminal
     /\ ~Unchanged(last.start))
    => (/\ last.log.events # <<>>
        /\ last.log.events[1] = RollingModifiedEvent
        /\ last.wrote => Unchanged([spec |-> last.start.spec,
                                    status |-> appRollout.status]))

\* C5: a rollout from a source to a target revision whose plan executor
\* reports success, in a pass that is not a deletion and ends without error:
\* the stored state is Succeeded, the last recorded target and source are the
\* spec's, the target's manifests were dispatched in GC mode against the
\* source's tracker, every resource of the target's manifest set is live,
\* every resource the source's tracker recorded that the target does not
\* name is gone, and so is the source's tracker.
C5_SucceededRollout ==
    (/\ last.kind = "reconcile"
     /\ last.wrote
     /\ ~last.start.deleting
     /\ last.start.spec.SourceAppRevisionName # NoRev
     /\ last.log.execCalled
     /\ last.log.execOut = Succeeded
     /\ last.log.execTarget = last.start.spec.TargetAppRevisionName
     /\ last.log.execSource = last.start.spec.SourceAppRevisionName)
    => LET target == last.start.spec.TargetAppRevisionName
           source == last.start.spec.SourceAppRevisionName
       IN  /\ appRollout.status.RollingState = Succeeded
           /\ appRollout.status.LastUpgradedTargetAppRevision = target
           /\ appRollout.status.LastSourceAppRevision = source
           /\ \E i \in DOMAIN last.log.dispatched :
                 LET d == last.log.dispatched[i]
                 IN  /\ d.mode = "gc" /\ d.ok
                     /\ d.rev = target /\ d.prior = source
                     /\ d.manifests = Manifest(target)
                     /\ (d.priorTracked \ Manifest(target))
                           \cap cluster.live = {}
           /\ Manifest(target) \subseteq cluster.live
           /\ source \notin cluster.rts

\* the rollout rev-1 -> rev-2 succeeded: rev-1's resource a is gone and
\* rev-2's resources are live
C5_Witness ==
    /\ last.kind = "reconcile"
    /\ last.wrote
    /\ last.log.execOut = Succeeded
    /\ last.start.spec.SourceAppRevisionName = "r1"
    /\ last.start.spec.TargetAppRevisionName = "r2"
    /\ appRollout.status.RollingState = Succeeded
    /\ appRollout.status.LastUpgradedTargetAppRevision = "r2"
    /\ cluster.live = {"b", "c", "d"}
    /\ "r1" \notin cluster.rts

\* the plan executor reported failure in this pass
ExecutorFailed(pass) ==
    /\ pass.kind = "reconcile"
    /\ pass.log.execCalled
    /\ pass.log.execOut = Failed

\* C6 as stated: when the plan executor reports failure, the live resources
\* and the resource trackers are the same after the pass as before it.
C6_FailedLeavesClusterAsItWas ==
    [][(RunStep /\ ExecutorFailed(last')) => cluster' = cluster]_vars

\* C6 amended: when the plan executor reports failure the stored state
\* becomes Failed, the pass dispatches nothing in GC mode and removes no live
\* resource, no tracker and no tracker entry; unless the pass itself
\* materialized the revisions (it started in LocatingTarget) the cluster is
\* exactly as before; and a later pass on the Failed rollout with an
\* unchanged spec leaves the cluster as it is.
C6_FailedKeepsResources ==
    [][RunStep =>
        /\ ExecutorFailed(last') =>
              /\ \A i \in DOMAIN last'.log.dispatched :
                    last'.log.dispatched[i].mode # "gc"
              /\ cluster.live \subseteq cluster'.live
              /\ cluster.rts \subseteq cluster'.rts
              /\ \A r \in Revs :
                    cluster.tracked[r] \subseteq cluster'.tracked[r]
              /\ last'.wrote => appRollout'.status.RollingState = Failed
              /\ local.obj.status.RollingState \notin
                    {Initial, LocatingTarget} => cluster' = cluster
        /\ (/\ last'.kind = "reconcile"
            /\ local.obj.status.RollingState = Failed
            /\ Unchanged(local.obj)) => cluster' = cluster]_vars

\* a rollout from rev-1 to rev-2 failed: the stored state is Failed and
\* the resources of both revisions are live and tracked
C6_Witness ==
    /\ ExecutorFailed(last)
    /\ last.wrote
    /\ appRollout.status.RollingState = Failed
    /\ cluster.tracked["r1"] = Manifest("r1")
    /\ cluster.tracked["r2"] = Manifest("r2")
    /\ cluster.live = Manifest("r1") \cup Manifest("r2")

\* C7: for a new rollout (empty RollingState, nothing recorded) whose target
\* revision does not exist, the stored RollingState after a pass through
\* DoReconcile is LocatingTarget.
C7_StoredLocatingTarget ==
    (/\ last.kind = "reconcile"
     /\ ~last.start.deleting
     /\ last.start.status = NewStatus
     /\ last.start.spec.TargetAppRevisionName \notin revisions)
    => appRollout.status.RollingState = LocatingTarget

\* C8: the finalizer is removed (and the object leaves the store) only by a
\* pass that read the object with a deletion request and RollingState
\* Succeeded or Failed; a pass that reads a deletion request in any other
\* state fires the Deleted event, works in state Deleting and leaves the
\* finalizer and the object in place.
C8_FinalizerRemoval ==
    [][/\ (appRollout.finalizer /\ ~appRollout'.finalizer) =>
            /\ RunStep
            /\ local.obj.deleting
            /\ local.obj.status.RollingState \in {Succeeded, Failed}
       /\ (/\ RunStep
           /\ local.obj.deleting
           /\ local.obj.finalizer
           /\ local.obj.status.RollingState \notin {Succeeded, Failed}) =>
            /\ appRollout'.exists
            /\ appRollout'.finalizer
            /\ last'.log.events # <<>>
            /\ last'.log.events[1] = RollingDeletedEvent
            /\ last'.log.execCalled => last'.log.execIn = Deleting]_vars

\* the finalizer of a terminated rollout was removed on deletion and the
\* object left the store, after its resources had been dispatched
C8_Witness ==
    /\ last.kind = "finalizer"
    /\ last.start.deleting
    /\ last.start.finalizer
    /\ last.start.status.RollingState \in {Succeeded, Failed}
    /\ ~appRollout.exists
    /\ cluster.live # {}

\* C9: a pass writes the stored rollout's status and finalizer only: the
\* stored spec (source, target, revert-on-delete) and the deletion request
\* are after the pass what they were before it, also when the user wrote the
\* spec while the pass was running; an object that is gone stays gone, and
\* the object leaves the store only when its deletion was requested.
C9_SpecNeverWritten ==
    [][RunStep =>
        IF ~appRollout.exists THEN appRollout' = appRollout
        ELSE IF appRollout'.exists
             THEN /\ appRollout'.spec = appRollout.spec
                  /\ appRollout'.deleting = appRollout.deleting
             ELSE appRollout.deleting /\ local.obj.deleting]_vars

\* a pass wrote its status although the user had edited the spec after the
\* pass read the object: the stored spec is the user's
C9_Witness ==
    /\ last.kind = "reconcile"
    /\ last.wrote
    /\ appRollout.exists
    /\ appRollout.spec # last.start.spec
    /\ appRollout.status.LastUpgradedTargetAppRevision =
          last.start.spec.TargetAppRevisionName

\* C10: a dispatch in GC mode against a prior tracker P of a manifest set M
\* leaves every resource of M live and recorded for the new revision, deletes
\* every resource P recorded that M does not name, deletes nothing else, and
\* removes P.
C10_GCDispatch ==
    [][RunStep =>
        \A i \in DOMAIN last'.log.dispatched :
           LET d == last'.log.dispatched[i]
           IN  (d.mode = "gc" /\ d.ok) =>
                  /\ d.manifests \subseteq cluster'.live
                  /\ d.manifests \subseteq cluster'.tracked[d.rev]
                  /\ (d.priorTracked \ d.manifests) \cap cluster'.live = {}
                  /\ (cluster.live \ cluster'.live) \subseteq
                        (d.priorTracked \ d.manifests)
                  /\ d.prior \notin cluster'.rts]_vars

\* the design document's example: P = {a, b, c}, M = {b, c, d}
C10_Witness ==
    \E i \in DOMAIN last.log.dispatched :
        LET d == last.log.dispatched[i]
        IN  /\ d.mode = "gc" /\ d.ok
            /\ d.priorTracked = {"a", "b", "c"}
            /\ d.manifests = {"b", "c", "d"}
            /\ cluster.live = {"b", "c", "d"}
            /\ d.prior \notin cluster.rts

\* C11: a dispatch in adopt mode (EnableUpgradeAndSkipGC) against a source
\* tracker S of a manifest set M deletes no resource, creates none of the
\* resources S recorded, and leaves every resource of M live and recorded
\* under the current revision's tracker.  The reconciler emits the target
\* against the source's tracker in this mode: it dispatches in GC mode only
\* as the last dispatch of a pass whose plan executor reported success.
C11_AdoptDispatch ==
    \A i \in DOMAIN last.log.dispatched :
        LET d == last.log.dispatched[i]
        IN  /\ (d.mode = "adopt" /\ d.ok) =>
                  /\ d.deleted = {}
                  /\ d.created \cap d.priorTracked = {}
                  /\ d.created \subseteq d.manifests
                  /\ d.manifests \subseteq d.recorded
                  /\ d.rev \in TargetRevs /\ d.prior \in SourceRevs
            /\ d.mode = "gc" =>
                  /\ i = Len(last.log.dispatched)
                  /\ last.log.execCalled
                  /\ last.log.execOut = Succeeded

\* the target's manifests were dispatched in adopt mode against the source's
\* tracker: the shared resources b and c were kept, d was created, a stays
C11_Witness ==
    /\ Len(last.log.dispatched) >= 2
    /\ LET d == last.log.dispatched[2]
       IN  /\ d.mode = "adopt" /\ d.ok
           /\ d.priorTracked = {"a", "b", "c"}
           /\ d.manifests = {"b", "c", "d"}
           /\ d.created = {"d"}
           /\ d.recorded = {"b", "c", "d"}
    /\ {"a", "b", "c", "d"} \subseteq cluster.live

\* C12: dispatching a manifest set in GC mode against a prior tracker a
\* second time changes nothing: dispatching once more after any successful
\* GC-mode dispatch leaves the live resources and the trackers as they are,
\* and a dispatch that finds the prior tracker already gone and the
\* manifests already live creates nothing and deletes nothing.
C12_GCDispatchIdempotent ==
    [][RunStep =>
        \A i \in DOMAIN last'.log.dispatched :
           LET d == last'.log.dispatched[i]
           IN  (d.mode = "gc" /\ d.ok) =>
                  /\ Dispatch(cluster', d.rev, d.manifests, "gc", d.prior)
                        = cluster'
                  /\ d.priorTracked = {} => d.deleted = {}
                  /\ d.created \subseteq d.manifests
                  /\ d.deleted \cap d.manifests = {}]_vars

\* a pass repeated the GC-mode dispatch of rev-2 against rev-1's tracker
\* (the status write of the pass before had failed): nothing was created or
\* deleted
C12_Witness ==
    /\ last.kind = "reconcile"
    /\ last.start.status.RollingState = Rolling
    /\ last.start.status.LastSourceAppRevision = "r1"
    /\ \E i \in DOMAIN last.log.dispatched :
          LET d == last.log.dispatched[i]
          IN  /\ d.mode = "gc" /\ d.ok
              /\ d.rev = "r2" /\ d.prior = "r1"
              /\ d.created = {} /\ d.deleted = {}
    /\ cluster.live = {"b", "c", "d"}
    /\ cluster.rts = {"r2"}

\* the trackers that record a resource
Owners(cl, x) == {r \in cl.rts : x \in cl.tracked[r]}

\* C13: once the stored rollout is in a terminal state, every live resource
\* is recorded in exactly one resource tracker: none is orphaned and none is
\* recorded in two trackers.
C13_SingleOwner ==
    (/\ appRollout.exists
     /\ pc = "idle"
     /\ appRollout.status.RollingState \in {Succeeded, Failed})
    => \A x \in cluster.live : Cardinality(Owners(cluster, x)) = 1

\* C20: when a pass through DoReconcile ends with an error of DoReconcile
\* (a revision not found, an assembly, dispatch or GC failure), the status
\* the pass computed is what the store holds after the pass.
C20_StatusWrittenOnError ==
    (/\ last.kind = "reconcile"
     /\ last.err \notin {"", "update"}
     /\ appRollout.exists)
    => appRollout.status = last.computed

\* the workloads and traits a call of Assemble returned
Objects(out) ==
    {out.workloads[c] : c \in DOMAIN out.workloads}
       \cup UNION {{out.traits[c][i] : i \in DOMAIN out.traits[c]} :
                     c \in DOMAIN out.traits}

\* C14: when the application configuration has no controller owner or the
\* revision-hash label is missing or empty, Assemble returns an error and no
\* workloads, no traits and no scope references.
C14_InvalidRevisionFails ==
    \A i \in DOMAIN assembled :
        (appRevision.owner = Nil \/ appRevision.hash = "") =>
           /\ assembled[i].err # ""
           /\ assembled[i].workloads = EmptyMap
           /\ assembled[i].traits = EmptyMap
           /\ assembled[i].scopes = EmptyMap

\* Assemble was called on a revision that lacks only the revision hash; its
\* component, workload and traits are in order
C14_Witness ==
    /\ assembled # <<>>
    /\ appRevision.owner # Nil
    /\ appRevision.hash = ""
    /\ appRevision.hasComp
    /\ ~appRevision.workload.bad
    /\ Len(appRevision.traits) = MaxTraits
    /\ \A i \in DOMAIN appRevision.traits : ~appRevision.traits[i].bad
    /\ workloadOptions = <<>>
    /\ assembled[1].err = "hash"

\* C15: on every assembled workload and trait the five canonical labels
\* carry the values derived from the revision and the component, whatever
\* the application's own labels say under these keys, and the application's
\* other labels are on the object.
C15_CanonicalLabelsWin ==
    \A i \in DOMAIN assembled :
        assembled[i].err = "" =>
           \A obj \in Objects(assembled[i]) :
              /\ Lookup(obj.labels, LabelAppName) = appRevision.AppName
              /\ Lookup(obj.labels, LabelAppRevision) = appRevision.Name
              /\ Lookup(obj.labels, LabelAppRevisionHash) = appRevision.hash
              /\ Lookup(obj.labels, LabelAppComponent) =
                    ExtractComponentName(appRevision.compRevisionName)
              /\ Lookup(obj.labels, LabelAppComponentRevision) =
                    appRevision.compRevisionName
              /\ \A k \in DOMAIN appRevision.AppLables \ CanonicalLabels :
                    Lookup(obj.labels, k) = appRevision.AppLables[k]

\* C16: every workload and trait a successful Assemble returns has exactly
\* one owner reference, the application's controller owner reference.
C16_SingleOwnerReference ==
    \A i \in DOMAIN assembled :
        assembled[i].err = "" =>
           \A obj \in Objects(assembled[i]) :
              /\ appRevision.owner # Nil
              /\ obj.owners = <<appRevision.owner>>

\* the rendered workload and a rendered trait came with an owner reference
\* of their own; Assemble returned both
C16_Witness ==
    /\ assembled # <<>>
    /\ assembled[1].err = ""
    /\ appRevision.workload.owners # <<>>
    /\ \E i \in DOMAIN appRevision.traits :
          appRevision.traits[i].owners # <<>>
    /\ "comp" \in DOMAIN assembled[1].workloads
    /\ assembled[1].workloads["comp"].owners = <<"Application">>

C18_RolloutAnnotationsStripped ==
    \A i \in DOMAIN assembled :
        assembled[i].err = "" =>
           \A obj \in Objects(assembled[i]) :
              /\ DOMAIN obj.annotations \cap RolloutAnnotations = {}
              /\ \A k \in DOMAIN appRevision.AppAnnotations
                             \ RolloutAnnotations :
                    Lookup(obj.annotations, k) = appRevision.AppAnnotations[k]

\* the application and the rendered workload both carried rollout
\* annotations; the assembled workload has the other annotations only
C18_Witness ==
    /\ assembled # <<>>
    /\ assembled[1].err = ""
    /\ AnnotationAppRollout \in DOMAIN appRevision.AppAnnotations
    /\ AnnotationAppRollout \in DOMAIN appRevision.workload.annotations
    /\ "comp" \in DOMAIN assembled[1].workloads
    /\ DOMAIN assembled[1].workloads["comp"].annotations =
          {"description", "note"}
    /\ assembled[1].traits["comp"] # <<>>

\* name, namespace, labels and owner references of an object
Identity(obj) == <<obj.name, obj.namespace, obj.labels, obj.owners>>

C24_LastNamesWorkedOn ==
    (/\ last.kind = "reconcile"
     /\ last.wrote
     /\ last.log.execCalled
     /\ last.log.execOut # Abandoning)
    => /\ appRollout.status.LastUpgradedTargetAppRevision =
             last.log.execTarget
       /\ appRollout.status.LastSourceAppRevision =
             (IF last.log.execSource = Nil THEN NoRev
              ELSE last.log.execSource)

\* C25: a pass that ends with a revision not found has dispatched nothing:
\* in LocatingTarget no manifest of either revision is dispatched before both
\* the source (when one is named) and the target are resolved.
C25_NothingBeforeBothResolved ==
    (last.kind = "reconcile" /\ last.err = "NotFound")
    => last.log.dispatched = <<>>

\* C26: while a rollout is locating its target, the source's manifests are
\* dispatched at most once: a pass that starts before the rollout left
\* LocatingTarget does not dispatch the source's manifests when the source's
\* tracker already records all of them; and the source is dispatched in
\* plain mode only, as the first dispatch of a pass.
C26_SourceDispatchedOnce ==
    [][RunStep =>
        \A i \in DOMAIN last'.log.dispatched :
           LET d == last'.log.dispatched[i]
           IN  (d.rev \in SourceRevs /\ d.prior = Nil) =>
                  /\ d.mode = "plain"
                  /\ i = 1
                  /\ local.obj.status.RollingState \in {Initial, LocatingTarget}
                        => ~(/\ d.rev \in cluster.rts
                             /\ Manifest(d.rev) \subseteq cluster.tracked[d.rev])]_vars

\* the pass works in state Deleting: it read a deletion request on a
\* rollout that is not terminated
InDeleting(pass) ==
    /\ pass.kind = "reconcile"
    /\ pass.start.deleting
    /\ pass.start.finalizer
    /\ pass.start.status.RollingState \notin Terminal

\* C27: in state Deleting a source or target revision that is not found does
\* not fail the pass (the plan executor is invoked without that revision's
\* workload) and any other resolution error does; in every other state a
\* revision that is not found fails the pass.
C27_NotFoundInDeleting ==
    /\ InDeleting(last) =>
          /\ last.err # "NotFound"
          /\ (last.log.resolved \ revisions # {} /\ last.err = "") =>
                last.log.execCalled
    /\ (/\ last.kind = "reconcile"
        /\ ~InDeleting(last)
        /\ last.log.execCalled) =>
          last.log.resolved \subseteq revisions

\* C30: a pass fires at most one of the events Deleted, Modified and
\* AppLocated.
C30_OneEventPerPass ==
    Len(last.log.events) <= 1

C29_AssemblyFailureFailsPass ==
    (/\ last.kind = "reconcile"
     /\ last.log.resolved \cap revisions \cap malformed # {})
    => (last.err # "" /\ ~last.log.execCalled)

\* C28: a rollout whose deletion is requested while it carries the finalizer
\* eventually leaves the store (it reached Succeeded or Failed and a later
\* pass removed the finalizer), whether or not its revisions exist.
C28_DeletionFinalized ==
    (appRollout.exists /\ appRollout.deleting) ~> ~appRollout.exists

\* C21: a pass fails on reading back the workload it dispatched only when
\* the workload does not become visible within the reads of the wait: a
\* workload visible at one of the BackoffSteps reads lets the pass proceed.
C21_BackoffWaitsForWorkload ==
    (last.kind = "reconcile" /\ last.err \in {"verify", "timeout"})
    => \A i \in DOMAIN last.log.dispatched :
          LET d == last.log.dispatched[i]
          IN  d.visibleAt = 1 \/ d.visibleAt > BackoffSteps

\* C22: two rollouts that are both under way never drive the resource
\* tracker of the same revision: the last passes of the two rollouts did not
\* dispatch into, adopt from or garbage-collect a common tracker.
C22_OneRolloutPerTracker ==
    (/\ appRollout.exists
     /\ peer.obj.exists
     /\ appRollout.status.RollingState \in InFlight
     /\ peer.obj.status.RollingState \in InFlight
     /\ last.kind = "reconcile"
     /\ peer.last.kind = "reconcile")
    => Drives(last) \cap Drives(peer.last) = {}

\* C31: a call of Assemble that returns an error returns no workloads, no
\* traits and no scope references; it returns an error when the workload or
\* a trait cannot be decoded, when a workload option fails or when the
\* workload reference cannot be set on a trait; and the workload of a call
\* with options is what the last option makes of the workload the call
\* with the options before it returns.
C31_AssembleAllOrNothing ==
    \A i \in DOMAIN assembled :
        LET out  == assembled[i]
            opts == workloadOptions
            decoded == appRevision.hasComp
            before == Assemble(appRevision, SubSeq(opts, 1, Len(opts) - 1))
        IN  /\ out.err # "" =>
                 /\ out.workloads = EmptyMap
                 /\ out.traits = EmptyMap
                 /\ out.scopes = EmptyMap
            /\ (decoded /\ appRevision.workload.bad) => out.err # ""
            /\ (decoded /\ \E k \in DOMAIN opts : opts[k] = "Reject")
                   => out.err # ""
            /\ (\E n \in DOMAIN appRevision.traits :
                   \/ appRevision.traits[n].bad
                   \/ WorkloadRefPath(Lookup(appRevision.traits[n].labels,
                                             TraitTypeLabel))
                         \in MalformedPaths) => out.err # ""
            /\ (out.err = "" /\ decoded /\ opts # <<>>) =>
                 /\ before.err = ""
                 /\ out.workloads["comp"] =
                       ApplyToWorkload(opts[Len(opts)],
                                       before.workloads["comp"],
                                       appRevision.compRevisionName).wl

\* Assemble succeeded with an option that renames the workload followed by
\* one that extends the name it finds
C31_Witness ==
    /\ assembled # <<>>
    /\ assembled[1].err = ""
    /\ workloadOptions = <<"UseRevisionName", "AddSuffix">>
    /\ "comp" \in DOMAIN assembled[1].workloads
    /\ assembled[1].workloads["comp"].name = <<"comp-v1", "canary">>
    /\ Len(appRevision.traits) = MaxTraits

\* C32: a successful call of Assemble returns one workload for the
\* component of the application configuration, under the component's name;
\* a revision that holds no document of that component makes the call fail.
C32_OneWorkloadPerComponent ==
    \A i \in DOMAIN assembled :
        /\ assembled[i].err = "" =>
              DOMAIN assembled[i].workloads =
                  {ExtractComponentName(appRevision.compRevisionName)}
        /\ ~appRevision.hasComp => assembled[i].err # ""

\* C33: without workload options the workload Assemble returns is named
\* after its component, whatever name it was rendered with, and is in the
\* namespace it was rendered with, or in the application's when it was
\* rendered with none.
C33_WorkloadNameAndNamespace ==
    \A i \in DOMAIN assembled :
        (assembled[i].err = "" /\ workloadOptions = <<>>) =>
           \A c \in DOMAIN assembled[i].workloads :
              /\ c = ExtractComponentName(appRevision.compRevisionName)
              /\ assembled[i].workloads[c].name = <<c>>
              /\ assembled[i].workloads[c].namespace =
                    (IF appRevision.workload.namespace = ""
                     THEN appRevision.AppNamespace
                     ELSE appRevision.workload.namespace)

\* Assemble without options on a workload rendered with a name and a
\* namespace of its own
C33_Witness ==
    /\ assembled # <<>>
    /\ workloadOptions = <<>>
    /\ assembled[1].err = ""
    /\ appRevision.workload.name = <<"rendered">>
    /\ appRevision.workload.namespace = "other"
    /\ "comp" \in DOMAIN assembled[1].workloads
    /\ assembled[1].workloads["comp"].name = <<"comp">>
    /\ assembled[1].workloads["comp"].namespace = "other"

\* the pass worked on a rollout that names no source revision and has
\* recorded none: a scale operation
ScalePass(pass) ==
    /\ pass.kind = "reconcile"
    /\ pass.start.spec.SourceAppRevisionName = NoRev
    /\ pass.start.status.LastSourceAppRevision = NoRev

\* C34: a pass of a scale operation resolves no source revision, dispatches
\* every manifest set without adopt and without GC and deletes no resource,
\* and hands no source workload to the plan executor.
C34_ScaleOperation ==
    [][(RunStep /\ ScalePass(last')) =>
         /\ last'.log.resolved \subseteq TargetRevs
         /\ last'.log.execSource = Nil
         /\ \A i \in DOMAIN last'.log.dispatched :
               LET d == last'.log.dispatched[i]
               IN  /\ d.mode = "plain"
                   /\ d.prior = Nil
                   /\ d.rev \in TargetRevs
                   /\ d.deleted = {}
         /\ cluster.live \subseteq cluster'.live]_vars

\* a scale operation to rev-2 succeeded: rev-2's manifests were dispatched
\* twice, when the target was located and when the rollout succeeded
C34_Witness ==
    /\ ScalePass(last)
    /\ last.wrote
    /\ last.log.execCalled
    /\ last.log.execOut = Succeeded
    /\ appRollout.status.RollingState = Succeeded
    /\ Len(last.log.dispatched) = 2
    /\ last.log.dispatched[2].ok
    /\ last.log.dispatched[2].rev = "r2"
    /\ cluster.live = Manifest("r2")

\* C35: the stored state becomes Succeeded only in a pass that ended
\* without error after its last dispatch, of the target the plan executor
\* worked on, succeeded, in GC mode against the tracker of the source the
\* pass names (when that source was dispatched before), leaving none of the
\* source's orphans live; a pass whose
\* plan executor reported success and whose dispatch failed leaves the
\* stored object as it was.
C35_SucceededAfterGC ==
    [][RunStep =>
         /\ (/\ appRollout'.status.RollingState = Succeeded
             /\ appRollout.status.RollingState # Succeeded)
            => /\ last'.kind = "reconcile" /\ last'.wrote /\ last'.err = ""
               /\ last'.log.execCalled /\ last'.log.execOut = Succeeded
               /\ last'.log.dispatched # <<>>
               /\ LET d == last'.log.dispatched[Len(last'.log.dispatched)]
                  IN  /\ d.ok
                      /\ d.rev = last'.log.execTarget
                      /\ d.manifests \subseteq cluster'.live
                      /\ \A source \in last'.log.resolved \cap SourceRevs :
                            source \in cluster.rts
                            => /\ d.mode = "gc"
                               /\ d.prior = source
                               /\ (cluster.tracked[source] \ d.manifests)
                                     \cap cluster'.live = {}
         /\ (/\ last'.kind = "reconcile"
             /\ last'.log.execCalled /\ last'.log.execOut = Succeeded
             /\ last'.err \in {"dispatch", "gc", "assemble"})
            => /\ appRollout' = appRollout
               /\ ~last'.wrote]_vars

\* the events of a pass as a set
Fired(pass) == {pass.log.events[i] : i \in DOMAIN pass.log.events}

\* the pass started on a rollout whose deletion was requested before it
\* terminated
DeletionPass(pass) ==
    /\ pass.kind = "reconcile"
    /\ pass.start.deleting
    /\ pass.start.finalizer
    /\ pass.start.status.RollingState \notin Terminal

\* C36: a pass fires Modified only when the state is not Deleting and fires
\* Deleted only when the state is neither Succeeded nor Failed; a pass on a
\* rollout whose deletion was requested before it terminated fires no
\* Modified, leaves the state neither Initial nor LocatingTarget, and works
\* on the revisions the spec names, not on the recorded ones.
C36_EventsFitTheState ==
    /\ RollingModifiedEvent \in Fired(last)
          => /\ last.start.status.RollingState # Deleting
             /\ RollingDeletedEvent \notin Fired(last)
    /\ RollingDeletedEvent \in Fired(last)
          => last.start.status.RollingState \notin {Succeeded, Failed}
    /\ DeletionPass(last)
          => /\ RollingModifiedEvent \notin Fired(last)
             /\ AppLocatedEvent \notin Fired(last)
             /\ last.computed.RollingState \notin {Initial, LocatingTarget}
             /\ last.log.resolved \subseteq
                   {last.start.spec.SourceAppRevisionName,
                    last.start.spec.TargetAppRevisionName}
             /\ last.log.execCalled
                   => last.log.execTarget =
                         last.start.spec.TargetAppRevisionName

\* the deletion of a rollout in Rolling was requested after its target was
\* changed from rev-2 to rev-3: the pass fired Deleted only and the plan
\* executor worked on rev-3
C36_Witness ==
    /\ DeletionPass(last)
    /\ last.start.status.RollingState = Rolling
    /\ last.start.status.LastUpgradedTargetAppRevision = "r2"
    /\ last.start.spec.TargetAppRevisionName = "r3"
    /\ last.log.events = <<RollingDeletedEvent>>
    /\ last.log.execCalled
    /\ last.log.execIn = Deleting
    /\ last.log.execTarget = "r3"

\* DoReconcile runs with the state LocatingTarget
PassLocating(pass) ==
    /\ pass.kind = "reconcile"
    /\ pass.start.status.RollingState \in {Initial, LocatingTarget}
    /\ ~DeletionPass(pass)

\* no owner reference of the list is marked as controller
NoController(owners) ==
    \A k \in DOMAIN owners : owners[k].controller # "true"

\* C37 as stated: manifests are dispatched in plain or adopt mode only by
\* passes whose state is LocatingTarget, so passes in Rolling, Deleting or
\* Abandoning dispatch nothing but in GC mode, and GC mode is used only in
\* a pass whose plan executor reports Succeeded.
C37_ManifestsOnlyWhenLocating ==
    \A i \in DOMAIN last.log.dispatched :
        LET d == last.log.dispatched[i]
        IN  /\ d.mode \in {"plain", "adopt"} => PassLocating(last)
            /\ d.mode = "gc" => /\ last.log.execCalled
                                /\ last.log.execOut = Succeeded

\* C37: emitAppRevisionForRollout dispatches, in plain or adopt mode, only
\* in passes whose state is LocatingTarget; AppLocated is fired only after
\* the emit of the target the plan executor works on dispatched every
\* manifest, read the workload back within the wait and left it without a
\* controller owner; any other dispatch is the one finalizeRollingSucceeded
\* makes of the target, last in a pass whose plan executor reports
\* Succeeded: in GC mode when the pass has a source revision, plain when it
\* has none; a pass in Rolling, Deleting or Abandoning dispatches at most
\* that once.
C37_DispatchFitsTheState ==
    /\ \A i \in DOMAIN last.log.dispatched :
          LET d == last.log.dispatched[i]
          IN  /\ d.by = "emit"
                    => /\ PassLocating(last)
                       /\ d.mode \in {"plain", "adopt"}
                       /\ last.log.execCalled => d.err = ""
              /\ d.by = "finalize"
                    => /\ last.log.execCalled
                       /\ last.log.execOut = Succeeded
                       /\ i = Len(last.log.dispatched)
                       /\ d.rev = last.log.execTarget
                       /\ d.mode = IF d.prior # Nil THEN "gc" ELSE "plain"
                       /\ d.prior = last.log.execSource
              /\ d.mode = "gc" => d.by = "finalize"
    /\ (last.kind = "reconcile" /\ ~PassLocating(last))
          => Len(last.log.dispatched) <= 1
    /\ AppLocatedEvent \in Fired(last)
          => /\ PassLocating(last)
             /\ last.log.execCalled
             /\ \E i \in DOMAIN last.log.dispatched :
                   LET d == last.log.dispatched[i]
                   IN  /\ d.by = "emit"
                       /\ d.rev = last.log.execTarget
                       /\ d.ok /\ d.err = ""
                       /\ d.manifests = Manifest(d.rev)
                       /\ d.visibleAt <= BackoffSteps
                       /\ NoController(d.owners)

\* a scale operation in Rolling succeeded: the pass dispatched the target's
\* manifests once, plain
C37_Witness ==
    /\ last.kind = "reconcile"
    /\ last.start.status.RollingState = Rolling
    /\ ~last.start.deleting
    /\ last.log.execOut = Succeeded
    /\ Len(last.log.dispatched) = 1
    /\ last.log.dispatched[1].by = "finalize"
    /\ last.log.dispatched[1].mode = "plain"
    /\ last.log.dispatched[1].ok
    /\ last.wrote

\* C38: after an emit that succeeded, the revision's workload carries the
\* owner references that were read back, as many and in the same order,
\* each with the controller flag it had unless that was true, which is now
\* false; the plan executor is invoked only after every emit of the pass
\* succeeded.
C38_ControllerOwnerDisabled ==
    \A i \in DOMAIN last.log.dispatched :
        LET d == last.log.dispatched[i]
        IN  (d.by = "emit" /\ (d.err = "" \/ last.log.execCalled))
            => /\ d.err = ""
               /\ NoController(d.owners)
               /\ Len(d.owners) = Len(d.read)
               /\ \A k \in DOMAIN d.read :
                     /\ d.owners[k].name = d.read[k].name
                     /\ d.read[k].controller # "true"
                           => d.owners[k] = d.read[k]
                     /\ d.read[k].controller = "true"
                           => d.owners[k].controller = "false"

\* the target's workload was read back with its application as controller
\* owner and its tracker as plain owner: both are kept, the application no
\* longer as controller, and the plan executor was invoked
C38_Witness ==
    /\ last.log.execCalled
    /\ \E i \in DOMAIN last.log.dispatched :
          LET d == last.log.dispatched[i]
          IN  /\ d.by = "emit"
              /\ d.rev = last.log.execTarget
              /\ d.read = <<[name |-> "app", controller |-> "true"],
                            [name |-> "tracker", controller |-> "nil"]>>
              /\ d.owners = <<[name |-> "app", controller |-> "false"],
                              [name |-> "tracker", controller |-> "nil"]>>

====
